---- MODULE Spec2Model ----
(***************************************************************************)
(* WheelLog ingestion pipeline (src/main.py): CSV parsing and column       *)
(* resolution, trip statistics, the batch write into wheellog_data and the *)
(* webhook / AI-analyzer dispatch.                                         *)
(*                                                                         *)
(* Representation.                                                         *)
(*  - A column name is a sequence of atoms (<<"time","stamp">> is the      *)
(*    header "timestamp"); `x in name` of Python is the contiguous         *)
(*    sub-sequence test Contains, str.lower() is ColLower.                 *)
(*  - A cell is a record [k, v, w]: k = "num" a number v, k = "ts" a text  *)
(*    that pandas parses as the instant v seconds, k = "nan" a missing     *)
(*    cell (NaN / NaT), k = "str" a text that is neither a number nor a    *)
(*    date, k = "time" a pandas Timestamp of v seconds and w nanoseconds,  *)
(*    k = "nat" the missing Timestamp NaT, k = "name" the filename v.      *)
(*  - Distances are metres in the file; distance_km is kept in hundredths  *)
(*    of a km and the speeds in tenths, so round(x, 2) and round(x, 1) are *)
(*    integer roundings.                                                   *)
(***************************************************************************)
EXTENDS Integers, Sequences, FiniteSets, TLC

\* ------------------------------------------------------------------ bounds
\* A file of the parse/aggregate specification holds at most MaxCells cells.
MaxCells == 4
\* A file of the pipeline specification holds at most MaxUploadCells cells.
MaxUploadCells == 2
\* The pipeline ingests its file at most MaxRuns times.
MaxRuns == 2

\* ------------------------------------------------------------------ values
Num(n) == [k |-> "num", v |-> n, w |-> 0]
Ts(s) == [k |-> "ts", v |-> s, w |-> 0]
NaN == [k |-> "nan", v |-> 0, w |-> 0]
Str == [k |-> "str", v |-> 0, w |-> 0]
Time(s, ns) == [k |-> "time", v |-> s, w |-> ns]
NaT == [k |-> "nat", v |-> 0, w |-> 0]
Name(f) == [k |-> "name", v |-> f, w |-> 0]

IsNum(c) == c.k = "num"

\* The numbers, instants and cells the input files are drawn from.  Every
\* number's text starts with '-' or '1', below the '2' of a date's year, so
\* in a column of texts a date or a word is the column's max.
NumVals == {-20, 10, 100}
TsVals == {0, 90}
Cells == {Num(n) : n \in NumVals} \cup {Ts(s) : s \in TsVals} \cup {NaN, Str}

\* Column names.
cTime == <<"time">>
cTimestamp == <<"time", "stamp">>
cFilename == <<"file", "name">>
cSpeed == <<"speed">>
cSpeedUpper == <<"SPEED">>
cVelocity == <<"velocity">>
cBattery == <<"bat", "tery">>
cDistance == <<"dist", "ance">>
cTotalDistance == <<"Total", "dist", "ance">>
cSpeedKm == <<"speed", "_", "km">>
cDate == <<"date">>
cMode == <<"mode">>
cTimeSpeed == <<"time", "_", "speed">>
cCharge == <<"charge">>

Lower(a) ==
    CASE a = "SPEED" -> "speed"
      [] a = "Total" -> "total"
      [] OTHER -> a

ColLower(col) == [i \in DOMAIN col |-> Lower(col[i])]

\* needle in hay, on atom sequences.
Contains(hay, needle) ==
    \E i \in 1..(Len(hay) - Len(needle) + 1) :
        SubSeq(hay, i, i + Len(needle) - 1) = needle

\* ---------------------------------------------------------------- resolver
\* The four branches of the if/elif chain of the header loop.
IsTimeName(col) ==
    Contains(ColLower(col), <<"time">>) \/ Contains(ColLower(col), <<"time", "stamp">>)

IsSpeedName(col) ==
    Contains(ColLower(col), <<"speed">>) \/ Contains(ColLower(col), <<"velocity">>)

IsBatteryName(col) ==
    \/ Contains(ColLower(col), <<"bat", "tery">>)
    \/ Contains(ColLower(col), <<"bat">>)
    \/ Contains(ColLower(col), <<"charge">>)

IsDistanceName(col) ==
    \/ Contains(ColLower(col), <<"dist", "ance">>)
    \/ Contains(ColLower(col), <<"dist">>)
    \/ Contains(ColLower(col), <<"km">>)

\* A mapping holds, per field, the index of the column in available_columns,
\* 0 for None.
NoMapping == [time |-> 0, speed |-> 0, battery |-> 0, distance |-> 0]

\* One iteration of `for col in available_columns`.
MatchStep(m, cols, i) ==
    IF IsTimeName(cols[i]) THEN [m EXCEPT !.time = i]
    ELSE IF IsSpeedName(cols[i]) THEN [m EXCEPT !.speed = i]
    ELSE IF IsBatteryName(cols[i]) THEN [m EXCEPT !.battery = i]
    ELSE IF IsDistanceName(cols[i]) THEN [m EXCEPT !.distance = i]
    ELSE m

RECURSIVE MatchLoop(_, _, _)
MatchLoop(m, cols, i) ==
    IF i > Len(cols) THEN m ELSE MatchLoop(MatchStep(m, cols, i), cols, i + 1)

\* Fallback with the two positions swapped: speed falls back to the first
\* column and time to the second.
FallbackSwapped(m, cols) ==
    LET m1 == IF m.speed = 0 /\ Len(cols) > 0 THEN [m EXCEPT !.speed = 1] ELSE m
    IN IF m1.time = 0 /\ Len(cols) > 1 THEN [m1 EXCEPT !.time = 2] ELSE m1

\* The positional fallback for time and speed.
Fallback(m, cols) ==
    LET m1 == IF m.time = 0 /\ Len(cols) > 0 THEN [m EXCEPT !.time = 1] ELSE m
    IN IF m1.speed = 0 /\ Len(cols) > 1 THEN [m1 EXCEPT !.speed = 2] ELSE m1

ResolveColumns(cols) == Fallback(MatchLoop(NoMapping, cols, 1), cols)

\* ------------------------------------------------------------- data frames
\* A data frame: its column names and its rows, each a tuple of cells.
Column(df, name) ==
    LET j == CHOOSE j \in 1..Len(df.columns) : df.columns[j] = name
    IN [i \in 1..Len(df.rows) |-> df.rows[i][j]]

HasColumn(df, name) == \E j \in 1..Len(df.columns) : df.columns[j] = name

\* df[name] = values: replaces the column in place, or appends it.
SetColumn(df, name, values) ==
    IF HasColumn(df, name)
    THEN LET j == CHOOSE j \in 1..Len(df.columns) : df.columns[j] = name
         IN [df EXCEPT !.rows =
                [i \in 1..Len(df.rows) |-> [df.rows[i] EXCEPT ![j] = values[i]]]]
    ELSE [columns |-> Append(df.columns, name),
          rows |-> [i \in 1..Len(df.rows) |-> Append(df.rows[i], values[i])]]

\* pd.read_csv: raises on a file without a header line.
ReadCsvRaises(file) == Len(file.headers) = 0

ReadCsv(file) == [columns |-> file.headers, rows |-> file.rows]

\* pd.to_datetime on one column: raises when a cell is a text that is no
\* date; a number is taken as nanoseconds since the epoch, a missing cell
\* becomes NaT.
ToDatetimeRaises(cells) == \E i \in DOMAIN cells : cells[i].k = "str"

ToDatetimeCell(c) ==
    CASE c.k = "ts" -> Time(c.v, 0)
      [] c.k = "num" -> Time(0, c.v)
      [] c.k = "time" -> c
      [] OTHER -> NaT

ToDatetime(cells) == [i \in DOMAIN cells |-> ToDatetimeCell(cells[i])]

\* pd.date_range(start=now, periods=n, freq='1S').
DateRange(now, n) == [i \in 1..n |-> Time(now + (i - 1), 0)]

\* The `if time_col:` block: df['timestamp'].
WithTimestamp(df, m, now) ==
    IF m.time = 0 THEN df
    ELSE LET raw == Column(df, df.columns[m.time])
         IN IF ToDatetimeRaises(raw)
            THEN SetColumn(df, cTimestamp, DateRange(now, Len(df.rows)))
            ELSE SetColumn(df, cTimestamp, ToDatetime(raw))

WithFilename(df, filename) ==
    SetColumn(df, cFilename, [i \in 1..Len(df.rows) |-> Name(filename)])

\* ------------------------------------------------------------ trip statistics
\* round-half-even of num / den, den > 0: Python's round() on the quotients
\* that occur here (files of fewer than 20 rows, distances in tens of metres).
RoundDiv(num, den) ==
    LET q == num \div den
        r == num % den
    IN IF 2 * r < den THEN q
       ELSE IF 2 * r > den THEN q + 1
       ELSE IF q % 2 = 0 THEN q ELSE q + 1

Numbers(cells) == {i \in DOMAIN cells : IsNum(cells[i])}

\* float(df[col].max()) and float(df[col].min()): raise on a column holding
\* anything but numbers and missing cells; NaN on a column without a number.
FloatRaises(cells) == \E i \in DOMAIN cells : cells[i].k \notin {"num", "nan"}

ColMax(cells) ==
    IF Numbers(cells) = {} THEN NaN
    ELSE LET i == CHOOSE i \in Numbers(cells) :
                     \A j \in Numbers(cells) : cells[j].v <= cells[i].v
         IN cells[i]

ColMin(cells) ==
    IF Numbers(cells) = {} THEN NaN
    ELSE LET i == CHOOSE i \in Numbers(cells) :
                     \A j \in Numbers(cells) : cells[j].v >= cells[i].v
         IN cells[i]

RECURSIVE SumOver(_, _)
SumOver(cells, S) ==
    IF S = {} THEN 0
    ELSE LET i == CHOOSE i \in S : TRUE IN cells[i].v + SumOver(cells, S \ {i})

\* DistanceKm without the test of the column's name: always the maximum.
DistanceKmAlwaysMax(df, m) ==
    IF m.distance = 0 THEN Num(0)
    ELSE LET cells == Column(df, df.columns[m.distance])
         IN IF FloatRaises(cells) THEN Num(0)
            ELSE IF Numbers(cells) = {} THEN NaN
            ELSE Num(RoundDiv(ColMax(cells).v, 10))

\* The distance block: distance_km in hundredths of a km, after round(., 2).
DistanceKm(df, m) ==
    IF m.distance = 0 THEN Num(0)
    ELSE LET cells == Column(df, df.columns[m.distance])
             total == Contains(ColLower(df.columns[m.distance]), <<"total">>)
         IN IF FloatRaises(cells) THEN Num(0)
            ELSE IF Numbers(cells) = {} THEN NaN
            ELSE IF total
                 THEN Num(RoundDiv(ColMax(cells).v - ColMin(cells).v, 10))
                 ELSE Num(RoundDiv(ColMax(cells).v, 10))

\* Timestamps of the 'timestamp' column that are not NaT.
Instants(cells) == {i \in DOMAIN cells : cells[i].k = "time"}

Before(a, b) == a.v < b.v \/ (a.v = b.v /\ a.w <= b.w)

\* The duration block: int((max - min).total_seconds() / 60); len(df) when
\* the column holds no instant (NaT - NaT) or the frame has no such column.
DurationMin(df) ==
    IF ~HasColumn(df, cTimestamp) THEN Len(df.rows)
    ELSE LET cells == Column(df, cTimestamp)
             I == Instants(cells)
         IN IF I = {} THEN Len(df.rows)
            ELSE LET hi == CHOOSE i \in I : \A j \in I : Before(cells[j], cells[i])
                     lo == CHOOSE i \in I : \A j \in I : Before(cells[i], cells[j])
                     ds == cells[hi].v - cells[lo].v
                     dns == cells[hi].w - cells[lo].w
                 IN IF dns < 0 THEN (ds - 1) \div 60 ELSE ds \div 60

\* int(x) of one cell raises on a missing cell and on a text.
IntRaises(c) == c.k # "num"

\* The battery block: each assignment stands unless an earlier one raised.
Battery(df, m) ==
    LET default == [battery_start |-> 100, battery_end |-> 100, battery_used |-> 0]
    IN IF m.battery = 0 THEN default
       ELSE LET cells == Column(df, df.columns[m.battery])
                n == Len(cells)
            IN IF n = 0 \/ IntRaises(cells[1]) THEN default
               ELSE IF IntRaises(cells[n])
                    THEN [default EXCEPT !.battery_start = cells[1].v]
                    ELSE [battery_start |-> cells[1].v,
                          battery_end |-> cells[n].v,
                          battery_used |-> cells[1].v - cells[n].v]

\* The speed block: max_speed and avg_speed in tenths, after round(., 1).
Speed(df, m) ==
    LET default == [max_speed |-> Num(0), avg_speed |-> Num(0)]
    IN IF m.speed = 0 THEN default
       ELSE LET cells == Column(df, df.columns[m.speed])
                N == Numbers(cells)
            IN IF FloatRaises(cells) THEN default
               ELSE IF N = {} THEN [max_speed |-> NaN, avg_speed |-> NaN]
               ELSE [max_speed |-> Num(10 * ColMax(cells).v),
                     avg_speed |-> Num(RoundDiv(10 * SumOver(cells, N), Cardinality(N)))]

\* _calculate_trip_stats.
CalculateTripStats(df, m) ==
    [distance_km |-> DistanceKm(df, m),
     duration_min |-> DurationMin(df),
     battery_start |-> Battery(df, m).battery_start,
     battery_end |-> Battery(df, m).battery_end,
     battery_used |-> Battery(df, m).battery_used,
     max_speed |-> Speed(df, m).max_speed,
     avg_speed |-> Speed(df, m).avg_speed]

\* The dict the outer `except Exception` of _calculate_trip_stats returns.
\* Every step that can raise sits in an inner try of its own, so no input
\* reaches this handler.
DegradedStats ==
    [distance_km |-> Num(0),
     duration_min |-> 0,
     battery_start |-> 100,
     battery_end |-> 100,
     battery_used |-> 0,
     max_speed |-> Num(0),
     avg_speed |-> Num(0)]

\* parse_wheellog_csv, on a file that pd.read_csv accepts.
ParseWheellogCsv(file, filename, now) ==
    LET m == ResolveColumns(file.headers)
        df == WithFilename(WithTimestamp(ReadCsv(file), m, now), filename)
    IN [dataframe |-> df,
        stats |-> CalculateTripStats(df, m),
        records_count |-> Len(df.rows)]

\* ------------------------------------------------------------------ inputs
\* The header lines the input files are drawn from; <<>> is the empty file.
HeaderLists ==
    {<<>>,
     <<cTime>>,
     <<cTotalDistance>>,
     <<cTime, cSpeed>>,
     <<cTime, cDistance>>,
     <<cTime, cBattery>>,
     <<cDate, cMode>>,
     <<cSpeed, cVelocity>>,
     <<cTime, cSpeedKm>>,
     <<cDistance, cTotalDistance>>,
     <<cDate, cTimestamp, cTime>>,
     <<cTime, cSpeedUpper, cBattery, cDistance>>}

RowCounts(h, maxcells) == IF Len(h) = 0 THEN {0} ELSE 0..(maxcells \div Len(h))

\* Every file of at most maxcells cells over HeaderLists and Cells.
FilesOf(h, maxcells) ==
    UNION {{[headers |-> h, rows |-> r] : r \in [1..n -> [1..Len(h) -> Cells]]} :
           n \in RowCounts(h, maxcells)}

FilesUpTo(maxcells) == UNION {FilesOf(h, maxcells) : h \in HeaderLists}

\* The column lists information_schema may answer for wheellog_data: no such
\* table, the telemetry table, a table that shares no column with a file.
DbSchemas ==
    {<<>>,
     <<cTimestamp, cFilename, cSpeed, cBattery, cDistance>>,
     <<cMode>>}

\* The outcomes of one requests.post of the dispatch: no URL configured
\* (webhook only), status 200, another status, a RequestException.
WebhookOutcomes == {"unset", "200", "500", "exception"}
AnalyzerOutcomes == {"200", "500", "exception"}

None == <<>>
Some(x) == <<x>>

\* ------------------------------------------------------------------- state
VARIABLES
    file,          \* the uploaded file: [headers, rows]
    filename,      \* its name
    runs,          \* ingestion runs started so far
    clock,         \* datetime.now(), in seconds
    pc,            \* position of the current run
    parsed,        \* parsed_data of process_wheellog_file, None before parsing
    db_columns,    \* the columns of wheellog_data in the store
    keyed,         \* whether the store enforces unique (timestamp, filename)
    table,         \* the committed rows of wheellog_data, in insertion order
    conn,          \* the connection of save_to_database
    txn,           \* the rows inserted in the open transaction
    next_row,      \* the tuple executemany sends next
    fault,         \* what made save_to_database fail, "none" otherwise
    save_success,  \* the value save_to_database returned
    committed,     \* whether conn.commit() of this run returned
    mark,          \* Len(table) when this run connected
    events,        \* the requests of the dispatch of this run, with outcomes
    result,        \* the dict process_wheellog_file returned, None before
    stats_row,     \* the analyzer's statistics query: its row, or its failure
    detailed,      \* the dict get_trip_detailed_stats returned, None before
    disk,          \* UPLOAD_DIR: per file name the content on disk, <<>> if none
    uploads,       \* the upload requests: name, endpoint, position, what was parsed
    auth_key,      \* whether GIGACHAT_AUTH_KEY is set
    access_token,  \* GigaChatClient.access_token, None or the token
    token_expires_at, \* GigaChatClient.token_expires_at, None or the minute
    token_lock,    \* GigaChatClient.token_lock
    wall_clock,    \* datetime.now() of the analyzer, in minutes
    calls,         \* the requests that use the client: kind, position, locals
    running        \* the call the event loop is running, 0 when it is free

ingest_vars == <<file, filename, runs, clock, pc, parsed, db_columns, keyed, table,
                 conn, txn, next_row, fault, save_success, committed, mark, events,
                 result>>

\* The state of the analyzer service.
detail_vars == <<stats_row, detailed>>
upload_vars == <<disk, uploads>>
giga_vars == <<auth_key, access_token, token_expires_at, token_lock, wall_clock,
               calls, running>>
service_vars == <<detail_vars, upload_vars, giga_vars>>

vars == <<ingest_vars, service_vars>>

input_vars == <<file, filename, db_columns, keyed>>
db_vars == <<table, conn, txn, next_row, fault, save_success, committed, mark>>

\* ------------------------------------------------------- save_to_database
Range(seq) == {seq[i] : i \in DOMAIN seq}

IndexOf(seq, x) == CHOOSE j \in DOMAIN seq : seq[j] = x

\* valid_columns taken in the order of the destination's columns.
ValidColumnsDbOrder(df, dbcols) == SelectSeq(dbcols, LAMBDA c : c \in Range(df.columns))

\* valid_columns = [col for col in df_columns if col in db_columns].
ValidColumns(df, dbcols) == SelectSeq(df.columns, LAMBDA c : c \in Range(dbcols))

\* data_tuples = [tuple(row) for row in df[valid_columns].values], each kept
\* with the column list of the INSERT.
DataTuples(df, dbcols) ==
    LET valid == ValidColumns(df, dbcols)
    IN [i \in 1..Len(df.rows) |->
           [cols |-> valid,
            vals |-> [j \in 1..Len(valid) |->
                         df.rows[i][IndexOf(df.columns, valid[j])]]]]

\* The (timestamp, filename) pair of a stored row; a column the INSERT did
\* not name, and NaT, are NULL.
Null == [k |-> "null", v |-> 0, w |-> 0]

ValueAt(row, name) ==
    IF name \in Range(row.cols) /\ row.vals[IndexOf(row.cols, name)].k # "nat"
    THEN row.vals[IndexOf(row.cols, name)]
    ELSE Null

KeyOf(row) == <<ValueAt(row, cTimestamp), ValueAt(row, cFilename)>>

HasKey(row) == Null \notin Range(KeyOf(row))

\* The unique index of a keyed store rejects a row whose pair is stored or
\* was inserted earlier in the transaction.
UniqueViolation(row, stored) ==
    HasKey(row) /\ \E k \in DOMAIN stored : KeyOf(stored[k]) = KeyOf(row)

\* cursor.rowcount after executemany of n tuples.
RowCount(n) == n

\* The analyzer service before any request, and the ingestion service
\* before any upload.
NoRow == [raises |-> TRUE, total_dist |-> NaN, battery_used |-> NaN, speed_dev |-> NaN]

DetailIdle ==
    /\ stats_row = NoRow
    /\ detailed = None

UploadNames == {"a.csv", "b.csv"}

UploadIdle ==
    /\ disk = [n \in UploadNames |-> <<>>]
    /\ uploads = <<>>

\* GigaChatClient.__init__, with no request yet.
GigaIdle ==
    /\ auth_key = FALSE
    /\ access_token = None
    /\ token_expires_at = None
    /\ token_lock = FALSE
    /\ wall_clock = 0
    /\ calls = <<>>
    /\ running = 0

ServicesIdle == DetailIdle /\ UploadIdle /\ GigaIdle

IngestIdle ==
    /\ file = [headers |-> <<>>, rows |-> <<>>]
    /\ filename = 1
    /\ db_columns = <<>>
    /\ keyed = FALSE
    /\ runs = 0
    /\ clock = 100
    /\ pc = "idle"
    /\ parsed = None
    /\ table = <<>>
    /\ conn = "none"
    /\ txn = <<>>
    /\ next_row = 1
    /\ fault = "none"
    /\ save_success = FALSE
    /\ committed = FALSE
    /\ mark = 0
    /\ events = <<>>
    /\ result = None

\* ----------------------------------------------------------------- actions
Init ==
    /\ file \in FilesUpTo(MaxUploadCells)
    /\ filename = 1
    /\ db_columns \in DbSchemas
    /\ keyed \in BOOLEAN
    /\ runs = 0
    /\ clock = 100
    /\ pc = "idle"
    /\ parsed = None
    /\ table = <<>>
    /\ conn = "none"
    /\ txn = <<>>
    /\ next_row = 1
    /\ fault = "none"
    /\ save_success = FALSE
    /\ committed = FALSE
    /\ mark = 0
    /\ events = <<>>
    /\ result = None
    /\ ServicesIdle

\* upload_file_sync: the file is written again under the same name and an
\* ingestion run starts; time has passed since the previous run.
Upload ==
    /\ pc \in {"idle", "done"}
    /\ runs < MaxRuns
    /\ runs' = runs + 1
    /\ \E d \in 1..2 : clock' = clock + d
    /\ pc' = "parse"
    /\ parsed' = None
    /\ conn' = "none"
    /\ txn' = <<>>
    /\ next_row' = 1
    /\ fault' = "none"
    /\ save_success' = FALSE
    /\ committed' = FALSE
    /\ mark' = Len(table)
    /\ events' = <<>>
    /\ result' = None
    /\ UNCHANGED <<service_vars, input_vars, table>>

ErrorResult(message) == [status |-> "error", message |-> message]

SuccessResult(name, data) ==
    [status |-> "success",
     filename |-> name,
     records_processed |-> data.records_count,
     trip_stats |-> data.stats]

\* processor.parse_wheellog_csv in process_wheellog_file; its exception is
\* caught by the handler of process_wheellog_file.
Parse ==
    /\ pc = "parse"
    /\ IF ReadCsvRaises(file)
       THEN /\ result' = Some(ErrorResult("parse"))
            /\ pc' = "done"
            /\ UNCHANGED parsed
       ELSE /\ parsed' = Some(ParseWheellogCsv(file, filename, clock))
            /\ pc' = "connect"
            /\ UNCHANGED result
    /\ UNCHANGED <<service_vars, input_vars, runs, clock, db_vars, events>>

\* psycopg2.connect: a failure leaves no conn for the handler to roll back.
Connect ==
    /\ pc = "connect"
    /\ \E ok \in BOOLEAN :
        IF ok
        THEN /\ conn' = "open"
             /\ pc' = "query"
             /\ UNCHANGED fault
        ELSE /\ fault' = "connect"
             /\ pc' = "saved"
             /\ UNCHANGED conn
    /\ mark' = Len(table)
    /\ UNCHANGED <<service_vars, input_vars, runs, clock, parsed, table, txn, next_row,
                   save_success, committed, events, result>>

\* The `except Exception` handler of save_to_database with a conn: rollback and
\* close, and when the rollback itself raises the close is skipped.
ExceptHandler(cause, rollback_ok) ==
    /\ fault' = cause
    /\ txn' = <<>>
    /\ conn' = IF rollback_ok THEN "closed" ELSE "leaked"
    /\ save_success' = FALSE
    /\ pc' = "saved"

\* The information_schema query and the two early returns.
QueryColumns ==
    /\ pc = "query"
    /\ \E ok \in BOOLEAN :
        IF ~ok
        THEN /\ \E rb \in BOOLEAN : ExceptHandler("query", rb)
             /\ UNCHANGED next_row
        ELSE IF db_columns = <<>> \/ ValidColumns(parsed[1].dataframe, db_columns) = <<>>
        THEN /\ fault' = IF db_columns = <<>> THEN "no_table" ELSE "no_columns"
             /\ conn' = "closed"
             /\ save_success' = FALSE
             /\ pc' = "saved"
             /\ UNCHANGED <<txn, next_row>>
        ELSE /\ pc' = "insert"
             /\ next_row' = 1
             /\ UNCHANGED <<fault, conn, txn, save_success>>
    /\ UNCHANGED <<service_vars, input_vars, runs, clock, parsed, table, committed, mark,
                   events, result>>

\* InsertRow on a connection with autocommit on: each accepted row is
\* committed by its own statement.
InsertRowAutocommit ==
    /\ pc = "insert"
    /\ next_row <= Len(parsed[1].dataframe.rows)
    /\ LET row == DataTuples(parsed[1].dataframe, db_columns)[next_row]
       IN IF keyed /\ UniqueViolation(row, table \o txn)
          THEN /\ ExceptHandler("unique", TRUE)
               /\ UNCHANGED <<next_row, table>>
          ELSE \E ok \in BOOLEAN :
                  IF ok
                  THEN /\ table' = Append(table, row)
                       /\ next_row' = next_row + 1
                       /\ UNCHANGED <<fault, conn, save_success, pc, txn>>
                  ELSE /\ \E rb \in BOOLEAN : ExceptHandler("execute", rb)
                       /\ UNCHANGED <<next_row, table>>
    /\ UNCHANGED <<service_vars, input_vars, runs, clock, parsed, committed, mark, events, result>>

\* InsertRow walking data_tuples from the last tuple to the first.
InsertRowReversed ==
    /\ pc = "insert"
    /\ next_row <= Len(parsed[1].dataframe.rows)
    /\ LET tuples == DataTuples(parsed[1].dataframe, db_columns)
           row == tuples[Len(tuples) + 1 - next_row]
       IN IF keyed /\ UniqueViolation(row, table \o txn)
          THEN /\ ExceptHandler("unique", TRUE)
               /\ UNCHANGED next_row
          ELSE \E ok \in BOOLEAN :
                  IF ok
                  THEN /\ txn' = Append(txn, row)
                       /\ next_row' = next_row + 1
                       /\ UNCHANGED <<fault, conn, save_success, pc>>
                  ELSE /\ \E rb \in BOOLEAN : ExceptHandler("execute", rb)
                       /\ UNCHANGED next_row
    /\ UNCHANGED <<service_vars, input_vars, runs, clock, parsed, table, committed, mark,
                   events, result>>

\* One statement of cursor.executemany: the store takes the row into the
\* transaction, or rejects it (a duplicate pair on a keyed store; a value it
\* cannot take or a lost connection on any store).
InsertRow ==
    /\ pc = "insert"
    /\ next_row <= Len(parsed[1].dataframe.rows)
    /\ LET row == DataTuples(parsed[1].dataframe, db_columns)[next_row]
       IN IF keyed /\ UniqueViolation(row, table \o txn)
          THEN /\ ExceptHandler("unique", TRUE)
               /\ UNCHANGED next_row
          ELSE \E ok \in BOOLEAN :
                  IF ok
                  THEN /\ txn' = Append(txn, row)
                       /\ next_row' = next_row + 1
                       /\ UNCHANGED <<fault, conn, save_success, pc>>
                  ELSE /\ \E rb \in BOOLEAN : ExceptHandler("execute", rb)
                       /\ UNCHANGED next_row
    /\ UNCHANGED <<service_vars, input_vars, runs, clock, parsed, table, committed, mark,
                   events, result>>

\* The store accepted the connection and stops answering: psycopg2.connect is
\* called without connect_timeout or statement_timeout, so the blocking call
\* of the current step never returns. The call runs on the event loop of the
\* process, which takes no other upload meanwhile.
StoreHangs ==
    /\ pc \in {"connect", "query", "insert"}
    /\ pc' = "hung"
    /\ UNCHANGED <<service_vars, input_vars, runs, clock, parsed, db_vars, events, result>>

\* conn.commit() and the return: a commit that raises persists nothing.
Commit ==
    /\ pc = "insert"
    /\ next_row > Len(parsed[1].dataframe.rows)
    /\ \E ok \in BOOLEAN :
        IF ok
        THEN /\ table' = table \o txn
             /\ txn' = <<>>
             /\ committed' = TRUE
             /\ conn' = "closed"
             /\ save_success' = (RowCount(Len(parsed[1].dataframe.rows)) > 0)
             /\ pc' = "saved"
             /\ UNCHANGED fault
        ELSE /\ \E rb \in BOOLEAN : ExceptHandler("commit", rb)
             /\ UNCHANGED <<table, committed>>
    /\ UNCHANGED <<service_vars, input_vars, runs, clock, parsed, next_row, mark, events, result>>

\* ---------------------------------------------------- process_wheellog_file
\* webhook_payload with the three fields of its own and nothing of the
\* statistics.
WebhookPayloadWithoutStats(name, data, now) ==
    [filename |-> name, timestamp |-> now, records_count |-> data.records_count]

\* webhook_payload: filename, timestamp of the dispatch, records_count, and
\* **parsed_data["stats"].
WebhookPayload(name, data, now) ==
    [f \in {"filename", "timestamp", "records_count"} \cup DOMAIN data.stats |->
        IF f \in DOMAIN data.stats THEN data.stats[f]
        ELSE IF f = "filename" THEN name
        ELSE IF f = "timestamp" THEN now
        ELSE data.records_count]

\* AfterSave without the `if not save_success` check.
AfterSaveUnchecked ==
    /\ pc = "saved"
    /\ pc' = "webhook"
    /\ UNCHANGED <<service_vars, input_vars, runs, clock, parsed, db_vars, events, result>>

\* `if not save_success`: the error result, or on to the notifications.
AfterSave ==
    /\ pc = "saved"
    /\ IF save_success
       THEN /\ pc' = "webhook"
            /\ UNCHANGED result
       ELSE /\ result' = Some(ErrorResult("save"))
            /\ pc' = "done"
    /\ UNCHANGED <<service_vars, input_vars, runs, clock, parsed, db_vars, events>>

\* SendWebhookNotification moved in front of the store write: the
\* notification leaves as soon as the file is parsed.
SendWebhookNotificationBeforeSave ==
    /\ pc = "connect"
    /\ events = <<>>
    /\ \E o \in WebhookOutcomes :
          events' = Append(events, [to |-> "webhook", outcome |-> o,
                                    payload |-> WebhookPayload(filename, parsed[1], clock)])
    /\ UNCHANGED <<service_vars, input_vars, runs, clock, pc, parsed, db_vars, result>>

\* send_webhook_notification: every outcome is logged and swallowed.
SendWebhookNotification ==
    /\ pc = "webhook"
    /\ \E o \in WebhookOutcomes :
          events' = Append(events, [to |-> "webhook", outcome |-> o,
                                    payload |-> WebhookPayload(filename, parsed[1], clock)])
    /\ pc' = "ai"
    /\ UNCHANGED <<service_vars, input_vars, runs, clock, parsed, db_vars, result>>

\* SendToAiAnalyzer with a compensation: a failed delivery deletes the rows
\* the run stored.
SendToAiAnalyzerCompensating ==
    /\ pc = "ai"
    /\ \E o \in AnalyzerOutcomes :
          /\ events' = Append(events, [to |-> "ai", outcome |-> o,
                                    payload |-> WebhookPayload(filename, parsed[1], clock)])
          /\ table' = IF o = "200" THEN table ELSE SubSeq(table, 1, mark)
    /\ result' = Some(SuccessResult(filename, parsed[1]))
    /\ pc' = "done"
    /\ UNCHANGED <<service_vars, input_vars, runs, clock, parsed, conn, txn, next_row, fault,
                   save_success, committed, mark>>

\* send_to_ai_analyzer, then the success result.
SendToAiAnalyzer ==
    /\ pc = "ai"
    /\ \E o \in AnalyzerOutcomes :
          events' = Append(events, [to |-> "ai", outcome |-> o,
                                    payload |-> WebhookPayload(filename, parsed[1], clock)])
    /\ result' = Some(SuccessResult(filename, parsed[1]))
    /\ pc' = "done"
    /\ UNCHANGED <<service_vars, input_vars, runs, clock, parsed, db_vars>>

Next ==
    \/ Upload
    \/ Parse
    \/ Connect
    \/ QueryColumns
    \/ InsertRow
    \/ Commit
    \/ StoreHangs
    \/ AfterSave
    \/ SendWebhookNotification
    \/ SendToAiAnalyzer

Spec == Init /\ [][Next]_vars

\* The parse/aggregate specification: parse_wheellog_csv applied once to
\* every file of at most MaxCells cells.
InitParse ==
    /\ file \in FilesUpTo(MaxCells)
    /\ filename = 1
    /\ db_columns = <<>>
    /\ keyed = FALSE
    /\ runs = 1
    /\ clock = 100
    /\ pc = "parse"
    /\ parsed = None
    /\ table = <<>>
    /\ conn = "none"
    /\ txn = <<>>
    /\ next_row = 1
    /\ fault = "none"
    /\ save_success = FALSE
    /\ committed = FALSE
    /\ mark = 0
    /\ events = <<>>
    /\ result = None
    /\ ServicesIdle

NextParse == Parse

SpecParse == InitParse /\ [][NextParse]_vars

\* The resolver specification: parse_wheellog_csv applied once to every file
\* of at most MaxHeaders distinct headers and no rows.
MaxHeaders == 3

HeaderNames == {cTime, cTimestamp, cSpeed, cSpeedUpper, cVelocity, cBattery,
                cCharge, cDistance, cTotalDistance, cSpeedKm, cTimeSpeed,
                cDate, cMode}

\* pd.read_csv keeps header names distinct.
HeaderSeqs(n) ==
    UNION {{h \in [1..k -> HeaderNames] : \A i, j \in 1..k : h[i] = h[j] => i = j} :
              k \in 0..n}

InitResolve ==
    /\ file \in {[headers |-> h, rows |-> <<>>] : h \in HeaderSeqs(MaxHeaders)}
    /\ filename = 1
    /\ db_columns = <<>>
    /\ keyed = FALSE
    /\ runs = 1
    /\ clock = 100
    /\ pc = "parse"
    /\ parsed = None
    /\ table = <<>>
    /\ conn = "none"
    /\ txn = <<>>
    /\ next_row = 1
    /\ fault = "none"
    /\ save_success = FALSE
    /\ committed = FALSE
    /\ mark = 0
    /\ events = <<>>
    /\ result = None
    /\ ServicesIdle

NextResolve == Parse

SpecResolve == InitResolve /\ [][NextResolve]_vars

\* The statistics specification: parse_wheellog_csv applied once to every
\* file of at most MaxStatCells cells over distance and battery headers, with
\* metre and percent readings.
MaxStatCells == 4

StatVals == {40, 90, 1000, 1500, 1504, 4500}
StatCells == {Num(n) : n \in StatVals} \cup {NaN}

StatHeaderLists ==
    {<<cDistance>>,
     <<cTotalDistance>>,
     <<cBattery>>,
     <<cTime, cDistance>>,
     <<cTime, cBattery>>,
     <<cDistance, cTotalDistance>>,
     <<cTotalDistance, cDistance>>}

InitStats ==
    /\ \E h \in StatHeaderLists :
          \E n \in RowCounts(h, MaxStatCells) :
              \E r \in [1..n -> [1..Len(h) -> StatCells]] :
                  file = [headers |-> h, rows |-> r]
    /\ filename = 1
    /\ db_columns = <<>>
    /\ keyed = FALSE
    /\ runs = 1
    /\ clock = 100
    /\ pc = "parse"
    /\ parsed = None
    /\ table = <<>>
    /\ conn = "none"
    /\ txn = <<>>
    /\ next_row = 1
    /\ fault = "none"
    /\ save_success = FALSE
    /\ committed = FALSE
    /\ mark = 0
    /\ events = <<>>
    /\ result = None
    /\ ServicesIdle

NextStats == Parse

SpecStats == InitStats /\ [][NextStats]_vars

\* ------------------------------------------- get_trip_detailed_stats
\* A Python number as a fraction v / w with w > 0; SQL NULL arrives as None.
Frac(n, d) == [k |-> "frac", v |-> n, w |-> d]
PyNone == [k |-> "none", v |-> 0, w |-> 1]
IsFrac(x) == x.k = "frac"

\* a < b, False when either side is NaN.
Less(a, b) == IsFrac(a) /\ IsFrac(b) /\ a.v * b.w < b.v * a.w

\* max(a, b) and min(a, b) of Python: the first argument stays unless the
\* second is greater (smaller).
PyMax(a, b) == IF Less(a, b) THEN b ELSE a
PyMin(a, b) == IF Less(b, a) THEN b ELSE a

FracSub(a, b) ==
    IF IsFrac(a) /\ IsFrac(b) THEN Frac(a.v * b.w - b.v * a.w, a.w * b.w) ELSE NaN
FracTimes(a, n) == IF IsFrac(a) THEN Frac(a.v * n, a.w) ELSE NaN
\* a / b for b > 0 or NaN.
FracDiv(a, b) ==
    IF IsFrac(a) /\ IsFrac(b) THEN Frac(a.v * b.w, a.w * b.v) ELSE NaN

Epsilon == Frac(1, 10)

\* battery_per_km = battery_used / max(total_dist, 0.1).
BatteryPerKm(row) == FracDiv(row.battery_used, PyMax(row.total_dist, Epsilon))

\* The efficiency score without its clamp.
EfficiencyScoreUnclamped(bpk) ==
    FracSub(Frac(10, 1), FracTimes(FracSub(bpk, Frac(3, 1)), 2))

\* efficiency_score = max(0, min(10, 10 - (battery_per_km - 3) * 2)).
EfficiencyScore(bpk) ==
    PyMax(Frac(0, 1),
          PyMin(Frac(10, 1),
                FracSub(Frac(10, 1), FracTimes(FracSub(bpk, Frac(3, 1)), 2))))

\* aggressiveness = min(10, max(0, speed_dev / 3)).
Aggressiveness(speed_dev) ==
    PyMin(Frac(10, 1), PyMax(Frac(0, 1), FracDiv(speed_dev, Frac(3, 1))))

\* The arithmetic of the computed path raises on None.
ComputeRaises(row) ==
    PyNone \in {row.total_dist, row.battery_used, row.speed_dev}

DefaultDetailedStats ==
    [path |-> "default",
     battery_per_km |-> Frac(4, 1),
     efficiency_score |-> Frac(7, 1),
     aggressiveness |-> Frac(5, 1)]

\* get_trip_detailed_stats, on the row of its query or on its failure.
GetTripDetailedStats(row) ==
    IF row.raises \/ ComputeRaises(row) THEN DefaultDetailedStats
    ELSE [path |-> "computed",
          battery_per_km |-> BatteryPerKm(row),
          efficiency_score |-> EfficiencyScore(BatteryPerKm(row)),
          aggressiveness |-> Aggressiveness(row.speed_dev)]

\* What the statistics query may answer: MAX(distance), MAX - MIN of the
\* battery and STDDEV(speed), each a number, NaN or NULL.
DistanceAnswers ==
    {Frac(n, 100) : n \in {-100, 0, 5, 10, 11, 100, 5000}} \cup {NaN, PyNone}
BatteryAnswers == {Frac(n, 1) : n \in {0, 1, 3, 50, 100}} \cup {NaN, PyNone}
DeviationAnswers == {Frac(n, 10) : n \in {0, 15, 299, 300, 301}} \cup {NaN, PyNone}

InitDetail ==
    /\ IngestIdle
    /\ stats_row \in [raises : BOOLEAN,
                      total_dist : DistanceAnswers,
                      battery_used : BatteryAnswers,
                      speed_dev : DeviationAnswers]
    /\ detailed = None
    /\ UploadIdle
    /\ GigaIdle

\* process_trip_analysis asks for the detailed statistics of the trip.
DetailedStats ==
    /\ detailed = None
    /\ detailed' = Some(GetTripDetailedStats(stats_row))
    /\ UNCHANGED <<ingest_vars, stats_row, upload_vars, giga_vars>>

NextDetail == DetailedStats

SpecDetail == InitDetail /\ [][NextDetail]_vars

\* ------------------------------------------- upload_file / upload_file_sync
\* The upload specification: MaxUploads requests on the one event loop of the
\* process.  Request u carries content <<u>>.  A handler runs until it
\* awaits something that suspends it.
MaxUploads == 2

Endpoints == {"upload", "upload-sync"}

InitUpload ==
    /\ IngestIdle
    /\ DetailIdle
    /\ GigaIdle
    /\ disk = [n \in UploadNames |-> <<>>]
    /\ uploads \in [1..MaxUploads -> [name : UploadNames,
                                      endpoint : Endpoints,
                                      pc : {"new"},
                                      parsed : {None},
                                      tag : {None}]]

\* process_wheellog_file up to its first suspension: the parser reads what
\* is on disk under file_path and tags the frame with the filename it was
\* given.
ProcessFile(up, content) ==
    [up EXCEPT !.pc = "done", !.parsed = Some(content), !.tag = Some(up.name)]

\* f.write(content) and what follows without suspension: upload_file queues
\* the background task and returns; upload_file_sync awaits
\* process_wheellog_file, which starts at once.
WriteFile(u) ==
    /\ disk' = [disk EXCEPT ![uploads[u].name] = <<u>>]
    /\ uploads' = [uploads EXCEPT ![u] =
                      IF uploads[u].endpoint = "upload-sync"
                      THEN ProcessFile(uploads[u], <<u>>)
                      ELSE [uploads[u] EXCEPT !.pc = "queued"]]

\* open(file_path, 'wb') truncates the file; `await file.read()` suspends the
\* handler when the upload was spooled to disk, and returns at once otherwise.
OpenFile(u) ==
    /\ uploads[u].pc = "new"
    /\ \E spooled \in BOOLEAN :
          IF spooled
          THEN /\ disk' = [disk EXCEPT ![uploads[u].name] = <<>>]
               /\ uploads' = [uploads EXCEPT ![u].pc = "reading"]
          ELSE WriteFile(u)
    /\ UNCHANGED <<ingest_vars, detail_vars, giga_vars>>

\* file.read() has returned.
ReadReturns(u) ==
    /\ uploads[u].pc = "reading"
    /\ WriteFile(u)
    /\ UNCHANGED <<ingest_vars, detail_vars, giga_vars>>

\* The background task of upload_file, run after the response was sent.
BackgroundTask(u) ==
    /\ uploads[u].pc = "queued"
    /\ uploads' = [uploads EXCEPT ![u] = ProcessFile(uploads[u], disk[uploads[u].name])]
    /\ UNCHANGED <<ingest_vars, detail_vars, giga_vars, disk>>

NextUpload ==
    \/ \E u \in DOMAIN uploads : OpenFile(u)
    \/ \E u \in DOMAIN uploads : ReadReturns(u)
    \/ \E u \in DOMAIN uploads : BackgroundTask(u)

SpecUpload == InitUpload /\ [][NextUpload]_vars

\* ------------------------------------------------------- GigaChatClient
\* The client specification: MaxCallers requests use the one client of the
\* process, each an analyze_trip or a forced refresh, while the analyzer's
\* clock runs up to MaxMinutes.
MaxCallers == 2
MaxMinutes == 30

\* timedelta(minutes=2) of _is_token_valid, and the lifetimes a token
\* response may name, in minutes.
TokenMargin == 2
ExpiresIn == {1, 30}

CallKinds == {"analyze", "refresh"}

InitGiga ==
    /\ IngestIdle
    /\ DetailIdle
    /\ UploadIdle
    /\ auth_key \in BOOLEAN
    /\ access_token = None
    /\ token_expires_at = None
    /\ token_lock = FALSE
    /\ wall_clock = 0
    /\ calls \in [1..MaxCallers -> [kind : CallKinds,
                                    pc : {"start"},
                                    phase : {1},
                                    got : {FALSE},
                                    token : {None},
                                    requests : {<<>>},
                                    result : {None}]]
    /\ running = 0

\* _is_token_valid.
IsTokenValid ==
    /\ access_token # None
    /\ token_expires_at # None
    /\ wall_clock < token_expires_at[1] - TokenMargin

\* A thread scheduler in place of the event loop: any call may take its next
\* step at any moment.
CanStepPreemptive(c) == TRUE

\* Every caller is an `async def` endpoint or background task on the one
\* event loop, and neither analyze_trip nor _get_new_access_token awaits
\* anything that suspends: a call that has started runs to its return before
\* another call takes a step.
CanStep(c) == running = c \/ (running = 0 /\ calls[c].pc = "start")

\* The retry of analyze_trip without its limit.
RetriesAlways(call) == TRUE

\* analyze_trip retries after a 401 only from its first request.
Retries(call) == call.phase = 1

\* The caller of _get_new_access_token goes on with what it returned:
\* refresh_token answers; _get_valid_token hands self.access_token, or None,
\* to analyze_trip, which sends or gives up.
AfterNewToken(call, ok) ==
    IF call.kind = "refresh"
    THEN [call EXCEPT !.pc = "done",
                      !.result = Some(IF ok THEN "refreshed" ELSE "not refreshed")]
    ELSE IF ok /\ access_token # None
    THEN [call EXCEPT !.pc = "send", !.token = access_token]
    ELSE [call EXCEPT !.pc = "done",
                      !.result = Some(IF call.phase = 1 THEN "no token"
                                      ELSE "authorization error")]

Proceed(c, call) ==
    /\ calls' = [calls EXCEPT ![c] = call]
    /\ running' = IF call.pc = "done" THEN 0 ELSE c

\* _get_valid_token, at the start of analyze_trip and after a 401.
GetValidToken(c) ==
    /\ CanStep(c)
    /\ calls[c].kind = "analyze"
    /\ calls[c].pc \in {"start", "refetch"}
    /\ IF IsTokenValid
       THEN Proceed(c, [calls[c] EXCEPT !.pc = "send", !.token = access_token])
       ELSE Proceed(c, [calls[c] EXCEPT !.pc = "auth"])
    /\ UNCHANGED <<ingest_vars, detail_vars, upload_vars, auth_key, access_token,
                   token_expires_at, token_lock, wall_clock>>

\* refresh_token: drops the cached token and asks for a new one.
RefreshToken(c) ==
    /\ CanStep(c)
    /\ calls[c].kind = "refresh"
    /\ calls[c].pc = "start"
    /\ access_token' = None
    /\ token_expires_at' = None
    /\ Proceed(c, [calls[c] EXCEPT !.pc = "auth"])
    /\ UNCHANGED <<ingest_vars, detail_vars, upload_vars, auth_key, token_lock,
                   wall_clock>>

\* _get_new_access_token up to `self.token_lock = True`: without a key it
\* returns False; with the lock taken it sleeps and returns _is_token_valid().
CheckLock(c) ==
    /\ CanStep(c)
    /\ calls[c].pc = "auth"
    /\ IF ~auth_key THEN Proceed(c, AfterNewToken(calls[c], FALSE))
       ELSE IF token_lock THEN Proceed(c, AfterNewToken(calls[c], IsTokenValid))
       ELSE Proceed(c, [calls[c] EXCEPT !.pc = "set"])
    /\ UNCHANGED <<ingest_vars, detail_vars, upload_vars, auth_key, access_token,
                   token_expires_at, token_lock, wall_clock>>

\* self.token_lock = True.
SetLock(c) ==
    /\ CanStep(c)
    /\ calls[c].pc = "set"
    /\ token_lock' = TRUE
    /\ Proceed(c, [calls[c] EXCEPT !.pc = "oauth"])
    /\ UNCHANGED <<ingest_vars, detail_vars, upload_vars, auth_key, access_token,
                   token_expires_at, wall_clock>>

\* The OAuth request and its answer: a token with its lifetime on 200; the
\* token alone when the lifetime of the 200 answer cannot be computed
\* (access_token is assigned first, the exception handler returns False);
\* nothing on another status or an exception of the request.
PostOAuth(c) ==
    /\ CanStep(c)
    /\ calls[c].pc = "oauth"
    /\ \/ \E e \in ExpiresIn :
             /\ access_token' = Some([by |-> c, phase |-> calls[c].phase,
                                      at |-> wall_clock])
             /\ token_expires_at' = Some(wall_clock + e)
             /\ Proceed(c, [calls[c] EXCEPT !.pc = "finally", !.got = TRUE])
       \/ /\ access_token' = Some([by |-> c, phase |-> calls[c].phase,
                                   at |-> wall_clock])
          /\ token_expires_at' = token_expires_at
          /\ Proceed(c, [calls[c] EXCEPT !.pc = "finally", !.got = FALSE])
       \/ /\ Proceed(c, [calls[c] EXCEPT !.pc = "finally", !.got = FALSE])
          /\ UNCHANGED <<access_token, token_expires_at>>
    /\ UNCHANGED <<ingest_vars, detail_vars, upload_vars, auth_key, token_lock,
                   wall_clock>>

\* finally: self.token_lock = False, and the return.
ReleaseLock(c) ==
    /\ CanStep(c)
    /\ calls[c].pc = "finally"
    /\ token_lock' = FALSE
    /\ Proceed(c, AfterNewToken(calls[c], calls[c].got))
    /\ UNCHANGED <<ingest_vars, detail_vars, upload_vars, auth_key, access_token,
                   token_expires_at, wall_clock>>

ChatStatuses == {"200", "401", "500", "exception"}

\* The text analyze_trip returns for an answer that does not lead to a retry.
AnswerText(call, status) ==
    IF status = "200" THEN "analysis"
    ELSE IF status = "exception" THEN "network error"
    ELSE IF call.phase = 2 \/ status = "401" THEN "authorization error"
    ELSE "api error"

\* A chat-completion request and the branch on its status.
PostChat(c) ==
    /\ CanStep(c)
    /\ calls[c].pc = "send"
    /\ \E status \in ChatStatuses :
          LET sent == [calls[c] EXCEPT !.requests =
                          Append(@, [token |-> calls[c].token,
                                     status |-> status,
                                     valid |-> IsTokenValid])]
          IN IF status = "401" /\ Retries(calls[c])
             THEN /\ access_token' = None
                  /\ token_expires_at' = None
                  /\ Proceed(c, [sent EXCEPT !.pc = "refetch", !.phase = 2])
             ELSE /\ Proceed(c, [sent EXCEPT !.pc = "done",
                                             !.result = Some(AnswerText(calls[c], status))])
                  /\ UNCHANGED <<access_token, token_expires_at>>
    /\ UNCHANGED <<ingest_vars, detail_vars, upload_vars, auth_key, token_lock,
                   wall_clock>>

\* Time passes between calls.
Tick ==
    /\ running = 0
    /\ \E d \in {10, 20} :
          /\ wall_clock + d <= MaxMinutes
          /\ wall_clock' = wall_clock + d
    /\ UNCHANGED <<ingest_vars, detail_vars, upload_vars, auth_key, access_token,
                   token_expires_at, token_lock, calls, running>>

NextGiga ==
    \/ \E c \in DOMAIN calls : GetValidToken(c)
    \/ \E c \in DOMAIN calls : RefreshToken(c)
    \/ \E c \in DOMAIN calls : CheckLock(c)
    \/ \E c \in DOMAIN calls : SetLock(c)
    \/ \E c \in DOMAIN calls : PostOAuth(c)
    \/ \E c \in DOMAIN calls : ReleaseLock(c)
    \/ \E c \in DOMAIN calls : PostChat(c)
    \/ Tick

SpecGiga == InitGiga /\ [][NextGiga]_vars

\* ------------------------------------------------------------------ claims
\* The batch of the current run, the rows the run has added to the table,
\* and the rows stored before it.
Batch == IF parsed = None THEN <<>> ELSE DataTuples(parsed[1].dataframe, db_columns)
Added == SubSeq(table, mark + 1, Len(table))
Stored == SubSeq(table, 1, mark)
AfterSaveCall == parsed # None /\ pc \in {"saved", "webhook", "ai", "done"}

\* C1: ingesting the identical file a second time adds no row whose
\* (timestamp, filename) pair is already stored.
C1_ReingestAddsNoDuplicate ==
    (runs >= 2 /\ pc = "done") =>
        \A j \in DOMAIN Added : ~UniqueViolation(Added[j], Stored)

\* C2: a batch holding a sample whose (timestamp, filename) pair is already
\* stored is written all the same: unless the connection or the schema fails,
\* save_to_database returns True.
C2_DuplicateDoesNotFailBatch ==
    (/\ AfterSaveCall
     /\ \E i \in DOMAIN Batch : UniqueViolation(Batch[i], Stored)
     /\ fault \in {"none", "unique"})
        => save_success

\* C3: the rows a run has added to the table are none or the whole batch, in
\* every state; once save_to_database has returned, True means the whole
\* batch is stored and a failure means none of it is.
C3_BatchAtomic ==
    /\ Added \in {<<>>, Batch}
    /\ AfterSaveCall =>
        /\ save_success => (Added = Batch /\ Batch # <<>>)
        /\ fault # "none" => (Added = <<>> /\ ~save_success)

\* C3 witness: the second insert of a two-row batch failed after the first
\* was accepted, and nothing of the batch is stored.
C3_Witness ==
    /\ pc = "saved"
    /\ fault = "execute"
    /\ next_row = 2
    /\ Len(Batch) = 2
    /\ Added = <<>>

\* C4: a "success" result is returned only for a committed batch; when the
\* parse raised or save_to_database returned False the result is an "error"
\* with a message.
C4_SuccessOnlyIfCommitted ==
    /\ pc = "done" => result # None
    /\ (result # None /\ result[1].status = "success") =>
           (committed /\ Added = Batch)
    /\ (pc = "done" /\ (parsed = None \/ ~save_success)) =>
           (result[1].status = "error" /\ "message" \in DOMAIN result[1])

\* C4 witness: the commit failed and the run returned an error.
C4_Witness ==
    /\ pc = "done"
    /\ fault = "commit"
    /\ result # None
    /\ result[1].status = "error"

\* C5: no step of the dispatch changes the stored rows, whatever its outcome.
C5_DispatchKeepsSamples == [][(pc \in {"webhook", "ai"}) => (table' = table)]_vars

\* C5 witness: both deliveries failed and the batch of the run is stored.
C5_Witness ==
    /\ pc = "done"
    /\ Len(events) = 2
    /\ events[1].outcome = "exception"
    /\ events[2].outcome = "500"
    /\ Batch # <<>>
    /\ Added = Batch

\* The cells of the file's time column, and whether pandas reads a cell as
\* an instant.
TimeCells ==
    LET m == ResolveColumns(file.headers)
    IN IF m.time = 0 THEN <<>>
       ELSE [i \in 1..Len(file.rows) |-> file.rows[i][m.time]]

Parseable(c) == c.k \in {"ts", "num"}

\* C6: when no row of the file has a parseable timestamp, every row is kept
\* with a synthetic timestamp, one second apart from ingestion time on, and a
\* committed batch holds as many rows as the file.
C6_SyntheticWhenNoneParseable ==
    (/\ parsed # None
     /\ Len(file.rows) >= 1
     /\ \A i \in DOMAIN TimeCells : ~Parseable(TimeCells[i]))
        => /\ Len(parsed[1].dataframe.rows) = Len(file.rows)
           /\ Column(parsed[1].dataframe, cTimestamp) = DateRange(clock, Len(file.rows))
           /\ committed => Len(Added) = Len(file.rows)

\* C7: when some but not all rows have an unparsable timestamp, exactly those
\* rows are dropped, the others keep their own parsed timestamp, and the
\* result of a successful run reports rows_total, rows_inserted, rows_skipped.
C7_OnlyUnparsableRowsSkipped ==
    (/\ parsed # None
     /\ \E i \in DOMAIN TimeCells : ~Parseable(TimeCells[i])
     /\ \E i \in DOMAIN TimeCells : Parseable(TimeCells[i]))
        => /\ Column(parsed[1].dataframe, cTimestamp) =
                  ToDatetime(SelectSeq(TimeCells, Parseable))
           /\ (result # None /\ result[1].status = "success") =>
                  {"rows_total", "rows_inserted", "rows_skipped"} \subseteq DOMAIN result[1]

\* The columns of the file resolved as speed, battery or distance, the time
\* column and the two columns the parser overwrites left out.
NumericChannels ==
    LET m == ResolveColumns(file.headers)
    IN {file.headers[j] : j \in {m.speed, m.battery, m.distance} \ {0, m.time}}
           \ {cTimestamp, cFilename}

\* C8: every row of the file is in the batch handed to executemany, and every
\* numeric channel of every tuple holds a number.
C8_NumericChannelsNormalized ==
    pc = "insert" =>
        /\ Len(Batch) = Len(file.rows)
        /\ \A i \in DOMAIN Batch :
               \A c \in NumericChannels \cap Range(Batch[i].cols) :
                   IsNum(Batch[i].vals[IndexOf(Batch[i].cols, c)])

\* C9: the statistics of a file with a header line and no rows are all zero,
\* with the battery fields at their defaults.
C9_EmptyTripAllZero ==
    (parsed # None /\ Len(file.rows) = 0) =>
        parsed[1].stats = [distance_km |-> Num(0),
                           duration_min |-> 0,
                           battery_start |-> 100,
                           battery_end |-> 100,
                           battery_used |-> 0,
                           max_speed |-> Num(0),
                           avg_speed |-> Num(0)]

\* C10: a file with a time header and a speed header gets distance_km >= 0
\* and duration_min >= 0.
C10_DistanceDurationNonNegative ==
    (/\ parsed # None
     /\ \E j \in DOMAIN file.headers : IsTimeName(file.headers[j])
     /\ \E j \in DOMAIN file.headers : IsSpeedName(file.headers[j]))
        => /\ IsNum(parsed[1].stats.distance_km)
           /\ parsed[1].stats.distance_km.v >= 0
           /\ parsed[1].stats.duration_min >= 0

\* C11: a file with a time header and a speed header gets
\* max_speed >= avg_speed >= 0, both rounded to one decimal, whatever the
\* speed column holds.
C11_MaxAvgSpeedOrdered ==
    (/\ parsed # None
     /\ \E j \in DOMAIN file.headers : IsTimeName(file.headers[j])
     /\ \E j \in DOMAIN file.headers : IsSpeedName(file.headers[j]))
        => /\ IsNum(parsed[1].stats.max_speed)
           /\ IsNum(parsed[1].stats.avg_speed)
           /\ parsed[1].stats.max_speed.v >= parsed[1].stats.avg_speed.v
           /\ parsed[1].stats.avg_speed.v >= 0

\* The fields of the statistics dict, and the columns a stored summary row
\* would carry them in.
StatFields == {"distance_km", "duration_min", "battery_start", "battery_end",
               "battery_used", "max_speed", "avg_speed"}
StatColumns == {<<f>> : f \in StatFields}

\* The stored rows of the current file that carry a statistic: the INSERT of
\* save_to_database is the only statement that writes to the store.
SummaryRows ==
    {k \in DOMAIN table :
        /\ ValueAt(table[k], cFilename) = Name(filename)
        /\ StatColumns \cap Range(table[k].cols) # {}}

\* C12: after a run that returned success the store holds exactly one
\* summary row for the file, next to its samples.
C12_SummaryPersisted ==
    (result # None /\ result[1].status = "success")
        => Cardinality(SummaryRows) = 1

\* C13: the destination table exists once the process takes uploads: it was
\* created at process start if it was absent.
C13_TableCreatedAtStart ==
    runs >= 1 => db_columns # <<>>

\* The fields the analyzer's TripWebhookPayload requires.
EventFields == {"filename", "timestamp", "records_count"} \cup StatFields

\* C14: every record handed to the webhook or the AI analyzer carries
\* filename, timestamp, records_count and the seven statistics, and so does
\* the record built from the fallback dict of the aggregator.
C14_EventRecordComplete ==
    /\ \A i \in DOMAIN events : EventFields \subseteq DOMAIN events[i].payload
    /\ parsed # None =>
          EventFields \subseteq
              DOMAIN WebhookPayload(filename,
                                    [parsed[1] EXCEPT !.stats = DegradedStats], clock)

C14_Witness ==
    /\ Len(events) = 2
    /\ events[1].to = "webhook"
    /\ events[2].to = "ai"
    /\ events[2].payload.records_count >= 1
    /\ DOMAIN events[1].payload = EventFields

\* The positions at which a step of the run is enabled, by the guards of
\* Parse, Connect, QueryColumns, InsertRow, Commit, AfterSave,
\* SendWebhookNotification and SendToAiAnalyzer.
RunnablePositions == {"parse", "connect", "query", "insert", "saved", "webhook", "ai"}

\* C15: a started run that has not returned can always take its next step,
\* also when the store accepted the connection and stops answering: no run is
\* left blocked, and so none keeps another upload from starting.
C15_RunNeverStuck ==
    (pc \notin {"idle", "done"}) => pc \in RunnablePositions

\* C16: a run parses and aggregates before it touches the store, dispatches
\* only after save_to_database returned success, the webhook first and the AI
\* analyzer second, and dispatches nothing when the store write failed.
C16_DispatchOnlyAfterStore ==
    /\ (pc = "parse") => (parsed = None /\ conn = "none" /\ txn = <<>>)
    /\ (conn # "none" \/ fault # "none") =>
          (parsed # None /\ DOMAIN parsed[1].stats = StatFields)
    /\ (events # <<>>) =>
          /\ save_success
          /\ committed
          /\ conn = "closed"
          /\ pc \in {"ai", "done"}
    /\ Len(events) <= 2
    /\ \A i \in DOMAIN events : events[i].to = IF i = 1 THEN "webhook" ELSE "ai"
    /\ (result # None /\ result[1].status = "success") => Len(events) = 2
    /\ (AfterSaveCall /\ ~save_success) => events = <<>>
    /\ (fault # "none") => events = <<>>

C16_Witness ==
    /\ pc = "done"
    /\ result # None
    /\ result[1].status = "success"
    /\ committed
    /\ Len(events) = 2
    /\ events[1].to = "webhook"
    /\ events[2].to = "ai"

\* The mapping parse_wheellog_csv resolved for the parsed file.
Resolved == ResolveColumns(file.headers)

Fields == {"time", "speed", "battery", "distance"}

\* Whether a header contains a synonym of a field.
HasSynonym(col, f) ==
    CASE f = "time" -> IsTimeName(col)
      [] f = "speed" -> IsSpeedName(col)
      [] f = "battery" -> IsBatteryName(col)
      [] f = "distance" -> IsDistanceName(col)

\* The headers that contain a synonym of a field.
Holders(f) == {i \in DOMAIN file.headers : HasSynonym(file.headers[i], f)}

Least(S) == CHOOSE i \in S : \A j \in S : i <= j

\* C17: a field with several headers containing one of its synonyms is
\* mapped to the first of them in header order.
C17_FirstMatchWins ==
    parsed # None =>
        \A f \in Fields :
            Cardinality(Holders(f)) >= 2 => Resolved[f] = Least(Holders(f))

\* C18: a field is resolved whenever some header contains one of its
\* synonyms, also when that header contains a synonym of another field.
C18_SynonymAlwaysResolves ==
    parsed # None =>
        \A f \in Fields : Holders(f) # {} => Resolved[f] # 0

\* C19: without a header holding a time synonym the first header is the time
\* column; without one holding a speed synonym the second header, if there is
\* one, is the speed column; battery and distance stay absent without a
\* synonym; and every file with a header parses without raising.
C19_PositionalFallback ==
    (pc # "parse") =>
        /\ Len(file.headers) >= 1 => (parsed # None /\ result = None)
        /\ (Holders("time") = {} /\ Len(file.headers) >= 1) => Resolved.time = 1
        /\ (Holders("speed") = {} /\ Len(file.headers) >= 2) => Resolved.speed = 2
        /\ (Holders("speed") = {} /\ Len(file.headers) < 2) => Resolved.speed = 0
        /\ Holders("battery") = {} => Resolved.battery = 0
        /\ Holders("distance") = {} => Resolved.distance = 0

C19_Witness ==
    /\ parsed # None
    /\ file.headers = <<cDate, cMode>>
    /\ Resolved = [time |-> 1, speed |-> 2, battery |-> 0, distance |-> 0]

\* Whole minutes from instant b to instant a, floored.
FloorMinutes(a, b) ==
    (IF a.w - b.w < 0 THEN a.v - b.v - 1 ELSE a.v - b.v) \div 60

\* C20: when every sample has a timestamp, duration_min is the floor of the
\* minutes from the first sample to the last sample in file order, also when
\* the timestamps are not in non-decreasing order; without any timestamp it
\* is the row count.
C20_DurationLastMinusFirst ==
    parsed # None =>
        LET df == parsed[1].dataframe
            n == Len(df.rows)
            cells == Column(df, cTimestamp)
        IN /\ (n >= 1 /\ Instants(cells) = 1..n) =>
                  parsed[1].stats.duration_min = FloorMinutes(cells[n], cells[1])
           /\ Instants(cells) = {} => parsed[1].stats.duration_min = n

Greatest(S) == CHOOSE i \in S : \A j \in S : i >= j

\* The cells of the file's column that the resolver selected as distance, the
\* numbers among them, and the raw distance in metres the claim names: the
\* span of the numbers under a name containing "total", else their maximum.
DistanceCells == Column(ReadCsv(file), file.headers[Resolved.distance])
DistanceNumbers == {DistanceCells[i].v : i \in Numbers(DistanceCells)}
DistanceChannelNumeric ==
    /\ Resolved.distance # 0
    /\ DistanceNumbers # {}
    /\ ~FloatRaises(DistanceCells)
DistanceRaw ==
    IF Contains(ColLower(file.headers[Resolved.distance]), <<"total">>)
    THEN Greatest(DistanceNumbers) - Least(DistanceNumbers)
    ELSE Greatest(DistanceNumbers)

BatteryCells == Column(ReadCsv(file), file.headers[Resolved.battery])

BatteryStats ==
    [battery_start |-> parsed[1].stats.battery_start,
     battery_end |-> parsed[1].stats.battery_end,
     battery_used |-> parsed[1].stats.battery_used]

\* C22: with a resolved battery channel and at least one sample,
\* battery_start is the first sample's value, battery_end the last sample's
\* and battery_used their difference, unclamped; the three are set together,
\* all from the data or all at their defaults.
C22_BatteryFirstLastTogether ==
    (parsed # None /\ Resolved.battery # 0 /\ Len(file.rows) >= 1) =>
        LET first == BatteryCells[1]
            last == BatteryCells[Len(file.rows)]
        IN /\ (IsNum(first) /\ IsNum(last)) =>
                  BatteryStats = [battery_start |-> first.v,
                                  battery_end |-> last.v,
                                  battery_used |-> first.v - last.v]
           /\ \/ BatteryStats = [battery_start |-> first.v,
                                 battery_end |-> last.v,
                                 battery_used |-> first.v - last.v]
              \/ BatteryStats = [battery_start |-> 100,
                                 battery_end |-> 100,
                                 battery_used |-> 0]

\* The columns of the parsed data frame (the file's headers and the two
\* columns the parser adds) that the destination table has.
SharedColumns ==
    IF parsed = None THEN {}
    ELSE Range(parsed[1].dataframe.columns) \cap Range(db_columns)

\* Whether cols lists exactly the columns of S, in the order of the frame.
InFrameOrder(cols, S) ==
    /\ Range(cols) = S
    /\ \A i, j \in DOMAIN cols :
          i < j => IndexOf(parsed[1].dataframe.columns, cols[i])
                       < IndexOf(parsed[1].dataframe.columns, cols[j])

\* C23: every inserted row names exactly the columns the frame shares with
\* the destination, in frame order, with the frame's values; a column the
\* destination lacks is dropped, and the write fails for its columns only
\* when no column is shared.
C23_InsertsSharedColumns ==
    /\ \A k \in DOMAIN (txn \o Added) :
          LET row == (txn \o Added)[k]
          IN /\ InFrameOrder(row.cols, SharedColumns)
             /\ Len(row.vals) = Len(row.cols)
             /\ \E i \in DOMAIN parsed[1].dataframe.rows :
                   \A j \in DOMAIN row.cols :
                       row.vals[j] = parsed[1].dataframe.rows[i][
                                         IndexOf(parsed[1].dataframe.columns, row.cols[j])]
    /\ (fault = "no_columns") => (SharedColumns = {} /\ db_columns # <<>>)
    /\ (pc = "insert") => SharedColumns # {}
    /\ (AfterSaveCall /\ fault = "none") => (committed /\ SharedColumns # {})

C23_Witness ==
    /\ committed
    /\ Added # <<>>
    /\ file.headers = <<cTime, cSpeed>>
    /\ Added[1].cols = <<cSpeed, cTimestamp, cFilename>>

\* C24: once save_to_database has returned, the connection it opened is
\* closed, on every exit path, also when the rollback of the exception
\* handler raised.
C24_ConnectionClosedOnReturn ==
    AfterSaveCall => conn \in {"none", "closed"}

\* C25: the tuples of the batch are the rows of the file in file order, and
\* the inserts are issued in that order: at every moment the transaction
\* holds the first rows of the batch, one after the other.
C25_InsertsInFileOrder ==
    (parsed # None /\ pc \in {"insert", "saved", "webhook", "ai", "done"}) =>
        LET df == parsed[1].dataframe
        IN /\ Len(df.rows) = Len(file.rows)
           /\ \A i \in DOMAIN df.rows :
                 \A c \in Range(file.headers) \ {cTimestamp, cFilename} :
                     Column(df, c)[i] = file.rows[i][IndexOf(file.headers, c)]
           /\ \A k \in DOMAIN txn :
                 \A j \in DOMAIN txn[k].cols :
                     txn[k].vals[j] = df.rows[k][IndexOf(df.columns, txn[k].cols[j])]
           /\ \A k \in DOMAIN Added :
                 \A j \in DOMAIN Added[k].cols :
                     Added[k].vals[j] = df.rows[k][IndexOf(df.columns, Added[k].cols[j])]
           /\ (pc = "insert") => Len(txn) = next_row - 1

C25_Witness ==
    /\ pc = "insert"
    /\ next_row = 3
    /\ Len(txn) = 2
    /\ txn[1] # txn[2]
    /\ txn[1].vals[1] = ToDatetimeCell(file.rows[1][1])
    /\ txn[2].vals[1] = ToDatetimeCell(file.rows[2][1])

\* Whether a score is a number between 0 and 10.
InScoreRange(x) == IsFrac(x) /\ 0 <= x.v /\ x.v <= 10 * x.w

\* C26: on the computed and on the default path efficiency_score and
\* aggressiveness are numbers in [0, 10]; on the computed path battery_per_km
\* is battery_used divided by the greater of the distance and 0.1, a divisor
\* that is never below 0.1.
C26_ScoresClamped ==
    detailed # None =>
        /\ InScoreRange(detailed[1].efficiency_score)
        /\ InScoreRange(detailed[1].aggressiveness)
        /\ (detailed[1].path = "computed") =>
              LET d == stats_row.total_dist
                  divisor == IF IsFrac(d) /\ 10 * d.v >= d.w THEN d ELSE Frac(1, 10)
              IN /\ ~Less(divisor, Frac(1, 10))
                 /\ IF IsFrac(d) /\ IsFrac(stats_row.battery_used)
                    THEN /\ IsFrac(detailed[1].battery_per_km)
                         /\ detailed[1].battery_per_km.v * divisor.v * stats_row.battery_used.w
                                = stats_row.battery_used.v * divisor.w
                                      * detailed[1].battery_per_km.w
                    ELSE detailed[1].battery_per_km = NaN

C26_Witness ==
    /\ detailed # None
    /\ detailed[1].path = "computed"
    /\ stats_row.total_dist = Frac(5, 100)
    /\ stats_row.battery_used = Frac(3, 1)
    /\ stats_row.speed_dev = Frac(301, 10)
    /\ detailed[1].efficiency_score = Frac(0, 1)
    /\ detailed[1].aggressiveness = Frac(10, 1)

\* C27: every run parses the content its own upload wrote and tags it with
\* its own filename, whatever other uploads do in between, uploads of the
\* same filename included.
C27_RunParsesOwnUpload ==
    \A u \in DOMAIN uploads :
        uploads[u].pc = "done" =>
            /\ uploads[u].parsed = Some(<<u>>)
            /\ uploads[u].tag = Some(uploads[u].name)

\* C28: save_to_database returns True exactly when it committed the batch:
\* never False after a commit, never True without one.
C28_TrueIffCommitted ==
    AfterSaveCall => (save_success <=> committed)


\* The calls inside the critical section of _get_new_access_token: between
\* `self.token_lock = True` and the end of `finally`.
InCriticalSection == {c \in DOMAIN calls : calls[c].pc \in {"oauth", "finally"}}

\* The calls whose OAuth token request is in flight.
OAuthInFlight == {c \in DOMAIN calls : calls[c].pc = "oauth"}

Texts == {"analysis", "no token", "authorization error", "api error", "network error"}

\* The token of a request was the cached one, unexpired with the margin, or
\* the one this call has just obtained.
TokenFromGetValidToken(c, r) ==
    /\ r.token # None
    /\ r.valid \/ r.token[1].by = c

\* C30: analyze_trip returns a text, sends at most two chat-completion
\* requests, the second only after the first answered 401 and with a token
\* obtained by this call after the cached one was cleared, and every request
\* carries a token that _get_valid_token returned.
C30_AtMostTwoRequests ==
    \A c \in DOMAIN calls :
        calls[c].kind = "analyze" =>
            LET rs == calls[c].requests
            IN /\ Len(rs) <= 2
               /\ calls[c].pc = "done" =>
                     /\ calls[c].result # None
                     /\ calls[c].result[1] \in Texts
               /\ Len(rs) = 2 =>
                     /\ rs[1].status = "401"
                     /\ rs[2].token # None
                     /\ rs[2].token[1].by = c
                     /\ rs[2].token[1].phase = 2
               /\ \A i \in DOMAIN rs : TokenFromGetValidToken(c, rs[i])

\* A call that was answered 401 with the cached token of an earlier call,
\* obtained a new token and got its analysis from the second request.
C30_Witness ==
    \E c \in DOMAIN calls :
        /\ calls[c].kind = "analyze"
        /\ calls[c].pc = "done"
        /\ Len(calls[c].requests) = 2
        /\ calls[c].requests[1].status = "401"
        /\ calls[c].requests[1].token[1].by # c
        /\ calls[c].requests[2].status = "200"
        /\ calls[c].result = Some("analysis")
====
